---- MODULE Spec2Model ----
(***************************************************************************)
(* Model of the media player component App (week 3/src/App.js): the        *)
(* catalog `musicFiles` mirrored to localStorage, the playback state       *)
(* (currentTrack, isPlaying, currentTime, duration), the two hidden media  *)
(* elements behind audioRef / videoRef, and the detached offline caching.  *)
(*                                                                         *)
(* Strings that the code inspects (file names, MIME types) are sequences   *)
(* of one-character strings.  Times are integers; the sentinel NaN stands  *)
(* for the NaN an HTMLMediaElement reports as duration while it has no     *)
(* metadata.                                                               *)
(***************************************************************************)
EXTENDS Integers, Sequences, FiniteSets, TLC

VARIABLES
    musicFiles,     \* useState([]) line 8: the catalog as of the last render
    currentTrack,   \* useState(null) line 9: an entry, or null
    isPlaying,      \* useState(false) line 10
    currentTime,    \* useState(0) line 11
    duration,       \* useState(0) line 12
    audio,          \* the <audio> element behind audioRef
    video,          \* the <video> element behind videoRef
    storage,        \* localStorage item "musicFiles"
    pendingLoad,    \* the setMusicFiles(JSON.parse(..)) queued by the load effect
    phase,          \* position of the component in its mount / effect cycle
    cacheTasks,     \* urls whose cache.put(url, fetch(url)) is in flight
    cacheStore,     \* keys of the cache "music-cache-v1"
    cachesInWindow, \* whether "caches" in window holds in this browser
    now,            \* Date.now()
    nextBlob,       \* serial of the next URL.createObjectURL result
    liveFrom,       \* blob urls with a serial below this one died with their page
    persisted,      \* history: the array handed to the last JSON.stringify
    original,       \* history: `persisted` as it was when the page was reloaded
    lastOp          \* history: the handler that ran last, with its argument

vars == <<musicFiles, currentTrack, isPlaying, currentTime, duration, audio,
          video, storage, pendingLoad, phase, cacheTasks, cacheStore,
          cachesInWindow, now, nextBlob, liveFrom, persisted, original, lastOp>>

playbackVars == <<currentTrack, isPlaying, currentTime, duration, audio, video>>
cacheVars == <<cacheTasks, cacheStore, cachesInWindow>>
historyVars == <<persisted, original>>

----------------------------------------------------------------------------
(* Bounds of the model *)

\* Date.now() takes the values 0..MaxNow
MaxNow == 1
\* Date.now() + Math.random() is rounded to a double: the fraction takes the
\* values 0/RandLevels .. RandLevels/RandLevels (the last one is the sum
\* rounding up to the next millisecond)
RandLevels == 1
\* at most MaxBlobs files are uploaded in a run
MaxBlobs == 2
\* width in pixels of the progress bar that is clicked to seek, and the
\* distance of its left edge from the left edge of the viewport
Width == 2
RectLeft == 1

----------------------------------------------------------------------------
(* Values *)

null == [null |-> TRUE]
NaN == -1
NoSrc == <<>>

\* a fresh media element: no source, paused, at position 0, duration NaN
FreshElement == [src |-> NoSrc, paused |-> TRUE, currentTime |-> 0, duration |-> NaN]

\* the files the user picks from in the main specification
AMp3 == [name |-> <<"a", ".", "m", "p", "3">>,
         type |-> <<"a", "u", "d", "i", "o", "/", "m", "p", "e", "g">>,
         size |-> 3]
BMp4 == [name |-> <<"b", ".", "m", "p", "4">>,
         type |-> <<"v", "i", "d", "e", "o", "/", "m", "p", "4">>,
         size |-> 5]
RawFiles == {AMp3, BMp4}

\* the length of the media behind a blob url, a multiple of Width so that
\* every seek target of the model is an integer
MediaDuration(url) == IF url[2] = AMp3.name THEN Width ELSE 2 * Width

----------------------------------------------------------------------------
(* Strings *)

UpperCase == <<"A", "B", "C", "D", "E", "F", "G", "H", "I", "J", "K", "L", "M",
               "N", "O", "P", "Q", "R", "S", "T", "U", "V", "W", "X", "Y", "Z">>
LowerCase == <<"a", "b", "c", "d", "e", "f", "g", "h", "i", "j", "k", "l", "m",
               "n", "o", "p", "q", "r", "s", "t", "u", "v", "w", "x", "y", "z">>

toLowerChar(c) ==
    IF \E i \in 1..26 : UpperCase[i] = c
    THEN LowerCase[CHOOSE i \in 1..26 : UpperCase[i] = c]
    ELSE c

toLowerCase(s) == [i \in 1..Len(s) |-> toLowerChar(s[i])]

\* String.prototype.startsWith
startsWith(s, prefix) ==
    /\ Len(s) >= Len(prefix)
    /\ SubSeq(s, 1, Len(prefix)) = prefix

\* s matches /suffix$/
endsWith(s, suffix) ==
    /\ Len(s) >= Len(suffix)
    /\ SubSeq(s, Len(s) - Len(suffix) + 1, Len(s)) = suffix

VideoPrefix == <<"v", "i", "d", "e", "o", "/">>
AudioPrefix == <<"a", "u", "d", "i", "o", "/">>

\* the alternatives of the regular expression of line 32
VideoExtensions == { <<"m", "p", "4">>, <<"a", "v", "i">>, <<"m", "o", "v">>,
                     <<"m", "k", "v">>, <<"w", "e", "b", "m">> }

\* the match without the flag i
matchesVideoExtension_caseSensitive(name) ==
    \E ext \in VideoExtensions : endsWith(name, <<".">> \o ext)

\* file.name.match(/\.(mp4|avi|mov|mkv|webm)$/i): the flag i makes the match
\* case-insensitive
matchesVideoExtension(name) ==
    \E ext \in VideoExtensions : endsWith(toLowerCase(name), <<".">> \o ext)

getFileType(file) ==
    IF startsWith(file.type, VideoPrefix) THEN "video"
    ELSE IF startsWith(file.type, AudioPrefix) THEN "audio"
    ELSE IF matchesVideoExtension(file.name) THEN "video"
    ELSE "audio"

----------------------------------------------------------------------------
(* JSON: the catalog as it is written to and read from localStorage *)

Digit == <<"0", "1", "2", "3", "4", "5", "6", "7", "8", "9">>

RECURSIVE numberToString(_)
numberToString(n) ==
    IF n < 10 THEN <<Digit[n + 1]>>
    ELSE numberToString(n \div 10) \o <<Digit[(n % 10) + 1]>>

digitValue(c) == (CHOOSE i \in 1..10 : Digit[i] = c) - 1

RECURSIVE parseNumber(_)
parseNumber(ds) ==
    IF Len(ds) = 1 THEN digitValue(ds[1])
    ELSE 10 * parseNumber(SubSeq(ds, 1, Len(ds) - 1)) + digitValue(ds[Len(ds)])

\* JSON.stringify of one entry: numbers become their decimal text, NaN becomes
\* null, strings keep their characters, and the File object, which has no own
\* enumerable property, becomes {}
stringifyNumber(n) == IF n = NaN THEN <<"n", "u", "l", "l">> ELSE numberToString(n)

stringifyEntry(e) ==
    [id        |-> stringifyNumber(e.id),
     name      |-> e.name,
     file      |-> "{}",
     url       |-> e.url,
     size      |-> stringifyNumber(e.size),
     type      |-> e.type,
     mediaType |-> e.mediaType]

JSONstringify(files) == [i \in 1..Len(files) |-> stringifyEntry(files[i])]

parseNumberText(t) == IF t = <<"n", "u", "l", "l">> THEN NaN ELSE parseNumber(t)

parseEntry(j) ==
    [id        |-> parseNumberText(j.id),
     name      |-> j.name,
     file      |-> j.file,
     url       |-> j.url,
     size      |-> parseNumberText(j.size),
     type      |-> j.type,
     mediaType |-> j.mediaType]

JSONparse(text) == [i \in 1..Len(text) |-> parseEntry(text[i])]

NoItem == [has |-> FALSE, val |-> <<>>]
Item(text) == [has |-> TRUE, val |-> text]

----------------------------------------------------------------------------
(* The media elements *)

\* element.src = url: the element loads anew, back at position 0 with no
\* metadata
setSrc(el, url) == [el EXCEPT !.src = url, !.currentTime = 0, !.duration = NaN]
play(el) == [el EXCEPT !.paused = FALSE]
pause(el) == [el EXCEPT !.paused = TRUE]
setCurrentTime(el, t) == [el EXCEPT !.currentTime = t]

\* a blob url is usable only in the page that created it
isLive(url) == url # NoSrc /\ url[1] >= liveFrom

----------------------------------------------------------------------------
(* Helpers of the handlers *)

undefined == [undefined |-> TRUE]

\* the truthiness test of `currentTrack && ...`
Truthy(x) == x # null /\ x # undefined

\* Array.prototype.findIndex, 0-based, -1 when no element matches
findIndex(files, id) ==
    IF \E k \in 1..Len(files) : files[k].id = id
    THEN (CHOOSE k \in 1..Len(files) :
             /\ files[k].id = id
             /\ \A j \in 1..(k - 1) : files[j].id # id) - 1
    ELSE -1

\* files[k] for a 0-based k
at(files, k) == IF k \in 0..(Len(files) - 1) THEN files[k + 1] ELSE undefined

\* Array.prototype.filter((track) => track.id !== trackId)
RECURSIVE filterOut(_, _)
filterOut(files, trackId) ==
    IF files = <<>> THEN <<>>
    ELSE IF Head(files).id # trackId
         THEN <<Head(files)>> \o filterOut(Tail(files), trackId)
         ELSE filterOut(Tail(files), trackId)

\* the element handleTimeUpdate, handleSeek and handlePause select
isVideoCurrent == Truthy(currentTrack) /\ currentTrack.mediaType = "video"

----------------------------------------------------------------------------
(* handleFileUpload *)

\* one uploaded file with what the environment answers while it is mapped: dt,
\* the milliseconds Date.now() has advanced, and r, the rounded fraction
\* Math.random() contributes
Pick == [file : RawFiles, dt : 0..(MaxNow - now), r : 0..RandLevels]

RECURSIVE PicksOfLength(_)
PicksOfLength(n) ==
    IF n = 0 THEN {<<>>}
    ELSE {<<p>> \o rest : p \in Pick, rest \in PicksOfLength(n - 1)}

\* the files that can still be uploaded
Remaining == MaxBlobs - (nextBlob - 1)

RECURSIVE elapsed(_)
elapsed(picks) == IF picks = <<>> THEN 0 ELSE Head(picks).dt + elapsed(Tail(picks))

\* Date.now() + Math.random()
newId(t, r) == t * RandLevels + r

\* Array.from(files).map(...) of lines 37-45; t is Date.now() before the
\* first file and serial numbers the blob urls
RECURSIVE newMusicFiles(_, _, _)
newMusicFiles(picks, t, serial) ==
    IF picks = <<>> THEN <<>>
    ELSE LET p == Head(picks)
             file == p.file
         IN  <<[id        |-> newId(t + p.dt, p.r),
                name      |-> file.name,
                file      |-> "File",
                url       |-> <<serial, file.name>>,
                size      |-> file.size,
                type      |-> file.type,
                mediaType |-> getFileType(file)]>>
             \o newMusicFiles(Tail(picks), t + p.dt, serial + 1)

\* the update written as setMusicFiles([...musicFiles, ...newMusicFiles]),
\* which appends to the catalog of the handler's closure
setMusicFilesAppend_closure(rendered, prev, new) == rendered \o new

\* the updater (prev) => [...prev, ...newMusicFiles] of line 47; rendered is
\* the musicFiles of the handler's closure, which the updater does not read
setMusicFilesAppend(rendered, prev, new) == prev \o new

urlsOf(files) == {files[i].url : i \in 1..Len(files)}

\* the synchronous part of cacheFilesForOffline: the capability test; the
\* fetch and the put of every file are then in flight
cacheFilesForOffline(tasks, files) ==
    IF cachesInWindow THEN tasks \cup urlsOf(files) ELSE tasks

----------------------------------------------------------------------------
(* The state after construction: the component has rendered once with the  *)
(* initial state of lines 8-14 and its effects have not run yet.           *)

NoOriginal == <<>>

Init ==
    /\ musicFiles = <<>>
    /\ currentTrack = null
    /\ isPlaying = FALSE
    /\ currentTime = 0
    /\ duration = 0
    /\ audio = FreshElement
    /\ video = FreshElement
    /\ storage = NoItem
    /\ pendingLoad = NoItem
    /\ phase = "mounted"
    /\ cacheTasks = {}
    /\ cacheStore = {}
    /\ cachesInWindow \in BOOLEAN
    /\ now = 0
    /\ nextBlob = 1
    /\ liveFrom = 1
    /\ persisted = <<>>
    /\ original = NoOriginal
    /\ lastOp = [op |-> "init", arg |-> 0]

\* every handler runs against the latest render, with no effect pending
Running == phase = "running"

\* what a transport handler finds: whether there is a current track, and
\* whether it is playing
Found == <<Truthy(currentTrack), isPlaying>>

Did(op, arg) ==
    /\ lastOp' = [op |-> op, arg |-> arg]
    /\ original' = NoOriginal

----------------------------------------------------------------------------
(* Effects, lines 17-27 *)

\* the effect of line 25, run with the musicFiles of the render it belongs to
saveEffect(files) ==
    /\ storage' = Item(JSONstringify(files))
    /\ persisted' = files

\* the load effect declared after the save effect: it reads the item the save
\* effect has just written from the initial catalog
loadEffect_afterSave(item) ==
    IF item.has THEN Item(JSONparse(JSONstringify(musicFiles))) ELSE NoItem

\* the value the effect of line 17 queues for the next render
loadEffect(item) == IF item.has THEN Item(JSONparse(item.val)) ELSE NoItem

\* the two effects of the first render, in the order of their declaration:
\* the load effect reads the item, the save effect then writes the empty
\* initial catalog
MountEffects ==
    /\ phase = "mounted"
    /\ pendingLoad' = loadEffect(storage)
    /\ saveEffect(musicFiles)
    /\ phase' = IF pendingLoad'.has THEN "queued" ELSE "running"
    /\ lastOp' = [op |-> "mountEffects", arg |-> 0]
    /\ UNCHANGED <<musicFiles, playbackVars, cacheVars, now, nextBlob, liveFrom,
                   original>>

\* the render that follows the queued setMusicFiles(JSON.parse(savedMusic))
RenderLoaded ==
    /\ phase = "queued"
    /\ musicFiles' = pendingLoad.val
    /\ pendingLoad' = NoItem
    /\ phase' = "dirty"
    /\ lastOp' = [op |-> "renderLoaded", arg |-> 0]
    /\ UNCHANGED <<playbackVars, storage, cacheVars, now, nextBlob, liveFrom,
                   persisted, original>>

\* the save effect after a render with a new musicFiles array
SaveEffect ==
    /\ phase = "dirty"
    /\ saveEffect(musicFiles)
    /\ phase' = "running"
    /\ lastOp' = [op |-> "saveEffect", arg |-> lastOp.op]
    /\ UNCHANGED <<musicFiles, playbackVars, pendingLoad, cacheVars, now,
                   nextBlob, liveFrom, original>>

\* the page is closed and opened again: the component state, the media
\* elements, the blob urls and the tasks in flight are gone; localStorage and
\* the cache stay
Reload ==
    /\ musicFiles' = <<>>
    /\ currentTrack' = null
    /\ isPlaying' = FALSE
    /\ currentTime' = 0
    /\ duration' = 0
    /\ audio' = FreshElement
    /\ video' = FreshElement
    /\ pendingLoad' = NoItem
    /\ phase' = "mounted"
    /\ cacheTasks' = {}
    /\ liveFrom' = nextBlob
    /\ original' = persisted
    /\ lastOp' = [op |-> "reload", arg |-> 0]
    /\ UNCHANGED <<storage, cacheStore, cachesInWindow, now, nextBlob, persisted>>

----------------------------------------------------------------------------
(* handleFileUpload, lines 36-50 *)

\* handleFileUpload(first), and handleFileUpload(second) when second is not
\* empty, both before the next render: React applies the two updaters in turn,
\* each to the result of the one before
Upload(first, second) ==
    /\ Running
    /\ first # <<>>
    /\ Len(first) + Len(second) <= Remaining
    /\ now + elapsed(first) + elapsed(second) <= MaxNow
    /\ LET new1 == newMusicFiles(first, now, nextBlob)
           new2 == newMusicFiles(second, now + elapsed(first), nextBlob + Len(first))
           after1 == setMusicFilesAppend(musicFiles, musicFiles, new1)
       IN  /\ musicFiles' = IF second = <<>> THEN after1
                            ELSE setMusicFilesAppend(musicFiles, after1, new2)
           /\ cacheTasks' = cacheFilesForOffline(cacheFilesForOffline(cacheTasks, new1), new2)
           /\ Did("upload", <<Len(first), Len(second)>>)
    /\ now' = now + elapsed(first) + elapsed(second)
    /\ nextBlob' = nextBlob + Len(first) + Len(second)
    /\ phase' = "dirty"
    /\ UNCHANGED <<playbackVars, storage, pendingLoad, cacheStore, cachesInWindow,
                   liveFrom, persisted>>

\* cache.put(musicFile.url, await fetch(musicFile.url)) resolves
CachePut(url) ==
    /\ url \in cacheTasks
    /\ cacheTasks' = cacheTasks \ {url}
    /\ cacheStore' = cacheStore \cup {url}
    /\ lastOp' = [op |-> "cachePut", arg |-> url]
    /\ UNCHANGED <<musicFiles, playbackVars, storage, pendingLoad, phase,
                   cachesInWindow, now, nextBlob, liveFrom, persisted, original>>

\* a rejection that ends the tasks of the other files as well
CacheFail_abortsBatch(url) ==
    /\ url \in cacheTasks
    /\ cacheTasks' = {}
    /\ lastOp' = [op |-> "cacheFail", arg |-> url]
    /\ UNCHANGED <<musicFiles, playbackVars, storage, pendingLoad, phase,
                   cacheStore, cachesInWindow, now, nextBlob, liveFrom, persisted,
                   original>>

\* the fetch or the put rejects: the catch of line 58 logs it
CacheFail(url) ==
    /\ url \in cacheTasks
    /\ cacheTasks' = cacheTasks \ {url}
    /\ lastOp' = [op |-> "cacheFail", arg |-> url]
    /\ UNCHANGED <<musicFiles, playbackVars, storage, pendingLoad, phase,
                   cacheStore, cachesInWindow, now, nextBlob, liveFrom, persisted,
                   original>>

----------------------------------------------------------------------------
(* handlePlay, lines 65-80 *)

\* handlePlay stopping the element it does not use
playedAudio_stopOther(track) ==
    IF track.mediaType = "video"
    THEN setSrc(pause(audio), NoSrc)
    ELSE play(setSrc(audio, track.url))

\* the <audio> element after handlePlay(track)
playedAudio(track) ==
    IF track.mediaType = "video" THEN audio ELSE play(setSrc(audio, track.url))

\* the <video> element after handlePlay(track)
playedVideo(track) ==
    IF track.mediaType = "video" THEN play(setSrc(video, track.url)) ELSE video

\* handlePlay(undefined) sets the two states and then throws at
\* track.mediaType
handlePlay(track) ==
    /\ currentTrack' = track
    /\ isPlaying' = TRUE
    /\ IF track = undefined
       THEN UNCHANGED <<audio, video>>
       ELSE /\ audio' = playedAudio(track)
            /\ video' = playedVideo(track)

Play(i) ==
    /\ Running
    /\ i \in 1..Len(musicFiles)
    /\ handlePlay(musicFiles[i])
    /\ Did("play", i)
    /\ UNCHANGED <<musicFiles, currentTime, duration, storage, pendingLoad, phase,
                   cacheVars, now, nextBlob, liveFrom, persisted>>

----------------------------------------------------------------------------
(* handlePause, lines 82-93 *)

\* handlePause pausing both elements
handlePause_both ==
    /\ isPlaying' = FALSE
    /\ video' = pause(video)
    /\ audio' = pause(audio)

handlePause ==
    /\ isPlaying' = FALSE
    /\ IF isVideoCurrent
       THEN video' = pause(video) /\ audio' = audio
       ELSE audio' = pause(audio) /\ video' = video

Pause ==
    /\ Running
    /\ handlePause
    /\ Did("pause", 0)
    /\ UNCHANGED <<musicFiles, currentTrack, currentTime, duration, storage,
                   pendingLoad, phase, cacheVars, now, nextBlob, liveFrom, persisted>>

----------------------------------------------------------------------------
(* handleNext, handlePrevious and handleEnded, lines 95-114 and 143-145 *)

\* currentIndex + 1 without the remainder
nextIndex_noWrap(currentIndex, length) == currentIndex + 1

\* (currentIndex + 1) % musicFiles.length; the remainder by 0 is NaN, which
\* indexes no element
nextIndex(currentIndex, length) ==
    IF length = 0 THEN NaN ELSE (currentIndex + 1) % length

prevIndex(currentIndex, length) ==
    IF currentIndex = 0 THEN length - 1 ELSE currentIndex - 1

handleNext ==
    IF Truthy(currentTrack)
    THEN LET currentIndex == findIndex(musicFiles, currentTrack.id)
         IN  handlePlay(at(musicFiles, nextIndex(currentIndex, Len(musicFiles))))
    ELSE UNCHANGED <<currentTrack, isPlaying, audio, video>>

handlePrevious ==
    IF Truthy(currentTrack)
    THEN LET currentIndex == findIndex(musicFiles, currentTrack.id)
         IN  handlePlay(at(musicFiles, prevIndex(currentIndex, Len(musicFiles))))
    ELSE UNCHANGED <<currentTrack, isPlaying, audio, video>>

handleEnded == handleNext

NextTrack ==
    /\ Running
    /\ handleNext
    /\ Did("next", Found)
    /\ UNCHANGED <<musicFiles, currentTime, duration, storage, pendingLoad, phase,
                   cacheVars, now, nextBlob, liveFrom, persisted>>

PreviousTrack ==
    /\ Running
    /\ handlePrevious
    /\ Did("previous", Found)
    /\ UNCHANGED <<musicFiles, currentTime, duration, storage, pendingLoad, phase,
                   cacheVars, now, nextBlob, liveFrom, persisted>>

----------------------------------------------------------------------------
(* handleTimeUpdate, lines 116-125, and the element events of lines 224-244 *)

\* handleTimeUpdate reading the <audio> element whatever the current track
handleTimeUpdate_audioOnly(a, v) ==
    /\ currentTime' = a.currentTime
    /\ duration' = a.duration

\* a and v are the two elements as the handler finds them
handleTimeUpdate(a, v) ==
    LET mediaElement == IF isVideoCurrent THEN v ELSE a
    IN  /\ currentTime' = mediaElement.currentTime
        /\ duration' = mediaElement.duration

Elements == {"audio", "video"}
elementOf(e) == IF e = "audio" THEN audio ELSE video

\* the positions a time-update of element el can report: the present one
\* (after a seek or a reload of the source), or, while it plays, one that is
\* some multiples of Width later
reportedPositions(el) ==
    {el.currentTime} \cup
    (IF ~el.paused /\ isLive(el.src) /\ el.duration # NaN
     THEN {t \in (el.currentTime + 1)..el.duration : (t - el.currentTime) % Width = 0}
     ELSE {})

\* element e emits timeupdate at position t: onTimeUpdate={handleTimeUpdate}
TimeUpdate(e, t) ==
    /\ Running
    /\ elementOf(e).src # NoSrc
    /\ t \in reportedPositions(elementOf(e))
    /\ audio' = IF e = "audio" THEN setCurrentTime(audio, t) ELSE audio
    /\ video' = IF e = "video" THEN setCurrentTime(video, t) ELSE video
    /\ handleTimeUpdate(audio', video')
    /\ Did("timeupdate", e)
    /\ UNCHANGED <<musicFiles, currentTrack, isPlaying, storage, pendingLoad, phase,
                   cacheVars, now, nextBlob, liveFrom, persisted>>

\* element e has read the metadata of its source: the inline handlers of
\* lines 228-232 and 238-242 publish that element's duration
LoadedMetadata(e) ==
    /\ Running
    /\ isLive(elementOf(e).src)
    /\ elementOf(e).duration = NaN
    /\ LET known == [elementOf(e) EXCEPT !.duration = MediaDuration(elementOf(e).src)]
       IN  /\ audio' = IF e = "audio" THEN known ELSE audio
           /\ video' = IF e = "video" THEN known ELSE video
           /\ duration' = known.duration
    /\ Did("loadedmetadata", e)
    /\ UNCHANGED <<musicFiles, currentTrack, isPlaying, currentTime, storage,
                   pendingLoad, phase, cacheVars, now, nextBlob, liveFrom, persisted>>

\* element e has played its source to the end: onEnded={handleEnded}
Ended(e) ==
    /\ Running
    /\ isLive(elementOf(e).src)
    /\ ~elementOf(e).paused
    /\ elementOf(e).duration # NaN
    /\ elementOf(e).currentTime >= elementOf(e).duration
    /\ handleEnded
    /\ Did("ended", <<e>> \o Found)
    /\ UNCHANGED <<musicFiles, currentTime, duration, storage, pendingLoad, phase,
                   cacheVars, now, nextBlob, liveFrom, persisted>>

----------------------------------------------------------------------------
(* handleSeek, lines 127-141 *)

\* e.currentTarget.getBoundingClientRect()
Rect == [left |-> RectLeft, width |-> Width]

\* (e.clientX / rect.width) * duration, without rect.left
newTime_noLeft(clientX, rect, d) ==
    IF d = NaN THEN NaN ELSE (clientX * d) \div rect.width

\* lines 129-131: ((e.clientX - rect.left) / rect.width) * duration, which is
\* NaN when duration is NaN
newTime(clientX, rect, d) ==
    IF d = NaN THEN NaN ELSE ((clientX - rect.left) * d) \div rect.width

\* assigning NaN to element.currentTime throws, and the handler ends before
\* setCurrentTime
handleSeek(clientX, rect) ==
    LET t == newTime(clientX, rect, duration)
    IN  IF t = NaN
        THEN UNCHANGED <<audio, video, currentTime>>
        ELSE /\ audio' = IF isVideoCurrent THEN audio ELSE setCurrentTime(audio, t)
             /\ video' = IF isVideoCurrent THEN setCurrentTime(video, t) ELSE video
             /\ currentTime' = t

\* a click on the progress bar, at clientX in the viewport
Seek(clientX) ==
    /\ Running
    /\ handleSeek(clientX, Rect)
    /\ Did("seek", clientX)
    /\ UNCHANGED <<musicFiles, currentTrack, isPlaying, duration, storage,
                   pendingLoad, phase, cacheVars, now, nextBlob, liveFrom, persisted>>

----------------------------------------------------------------------------
(* deleteTrack, lines 147-161 *)

\* the ids a track can carry
Ids == 0..(MaxNow * RandLevels + RandLevels)

\* the test of line 149 without the comparison of the ids
deletesCurrent_anyId(trackId) == Truthy(currentTrack)

\* deleteTrack without the branch of lines 149-160
deletesCurrent_never(trackId) == FALSE

deletesCurrent(trackId) == Truthy(currentTrack) /\ currentTrack.id = trackId

\* an element that is paused and keeps its source
stopped_keepSrc(el) == pause(el)

\* an element after lines 153-154 or 157-158
stopped(el) == setSrc(pause(el), NoSrc)

\* deleteTrack without setIsPlaying(false)
deleteTrack_keepsPlaying(trackId) ==
    /\ musicFiles' = filterOut(musicFiles, trackId)
    /\ IF deletesCurrent(trackId)
       THEN /\ isPlaying' = isPlaying
            /\ currentTrack' = null
            /\ audio' = stopped(audio)
            /\ video' = stopped(video)
       ELSE UNCHANGED <<isPlaying, currentTrack, audio, video>>

deleteTrack(trackId) ==
    /\ musicFiles' = filterOut(musicFiles, trackId)
    /\ IF deletesCurrent(trackId)
       THEN /\ isPlaying' = FALSE
            /\ currentTrack' = null
            /\ audio' = stopped(audio)
            /\ video' = stopped(video)
       ELSE UNCHANGED <<isPlaying, currentTrack, audio, video>>

\* a delete that also drops the cache task and the cache key of the entries
\* it removes
Delete_purgesCache(trackId) ==
    /\ Running
    /\ deleteTrack(trackId)
    /\ phase' = "dirty"
    /\ Did("delete", <<trackId, IF deletesCurrent(trackId)
                                   THEN currentTrack.mediaType ELSE "none">>)
    /\ cacheTasks' = cacheTasks \ (urlsOf(musicFiles) \ urlsOf(musicFiles'))
    /\ cacheStore' = cacheStore \ (urlsOf(musicFiles) \ urlsOf(musicFiles'))
    /\ UNCHANGED <<currentTime, duration, storage, pendingLoad, cachesInWindow, now,
                   nextBlob, liveFrom, persisted>>

Delete(trackId) ==
    /\ Running
    /\ deleteTrack(trackId)
    /\ phase' = "dirty"
    /\ Did("delete", <<trackId, IF deletesCurrent(trackId)
                                   THEN currentTrack.mediaType ELSE "none">>)
    /\ UNCHANGED <<currentTime, duration, storage, pendingLoad, cacheVars, now,
                   nextBlob, liveFrom, persisted>>

----------------------------------------------------------------------------
(* The component *)

\* the component without its progress bar and in a browser without the Cache
\* API: no handler but handleSeek writes a position chosen by the user, and
\* no handler reads the cache
NextPlayer ==
    \/ MountEffects
    \/ RenderLoaded
    \/ SaveEffect
    \/ Reload
    \/ \E n1 \in 1..Remaining : \E n2 \in 0..(Remaining - n1) :
          \E first \in PicksOfLength(n1), second \in PicksOfLength(n2) :
             Upload(first, second)
    \/ \E i \in 1..Len(musicFiles) : Play(i)
    \/ Pause
    \/ NextTrack
    \/ PreviousTrack
    \/ \E e \in Elements, t \in 0..(2 * Width) : TimeUpdate(e, t)
    \/ \E e \in Elements : LoadedMetadata(e)
    \/ \E e \in Elements : Ended(e)
    \/ \E trackId \in Ids : Delete(trackId)

SeekStep == \E clientX \in RectLeft..(RectLeft + Width) : Seek(clientX)

CacheStep ==
    \/ \E url \in cacheTasks : CachePut(url)
    \/ \E url \in cacheTasks : CacheFail(url)

Next == NextPlayer \/ SeekStep \/ CacheStep

Spec == Init /\ [][Next]_vars

InitNoCache == Init /\ ~cachesInWindow

SpecPlayer == InitNoCache /\ [][NextPlayer]_vars

SpecSeek == InitNoCache /\ [][NextPlayer \/ SeekStep]_vars

\* the catalog and the offline cache, in browsers with and without the Cache
\* API: the handlers that change the catalog or the current track, and the
\* completions of the cache tasks
NextCache ==
    \/ MountEffects
    \/ RenderLoaded
    \/ SaveEffect
    \/ Reload
    \/ \E n1 \in 1..Remaining : \E n2 \in 0..(Remaining - n1) :
          \E first \in PicksOfLength(n1), second \in PicksOfLength(n2) :
             Upload(first, second)
    \/ \E i \in 1..Len(musicFiles) : Play(i)
    \/ \E trackId \in Ids : Delete(trackId)
    \/ CacheStep

SpecCache == Init /\ [][NextCache]_vars

----------------------------------------------------------------------------
(* getFileType on its own: the files a user can hand to the upload widget  *)

ClassifyNames ==
    { <<"c", ".", "m", "p", "4">>, <<"c", ".", "M", "P", "4">>,
      <<"c", ".", "M", "p", "4">>, <<"c", ".", "a", "v", "i">>,
      <<"c", ".", "A", "V", "I">>, <<"c", ".", "m", "o", "v">>,
      <<"c", ".", "M", "o", "V">>, <<"c", ".", "m", "k", "v">>,
      <<"c", ".", "M", "K", "V">>, <<"c", ".", "w", "e", "b", "m">>,
      <<"c", ".", "W", "E", "B", "M">>, <<"c", ".", "m", "p", "3">>,
      <<"c", ".", "W", "A", "V">>, <<"c", ".", "m", "p", "4", "x">>,
      <<"c", ".", "m", "p", "4", ".", "t", "x", "t">>, <<"c", "m", "p", "4">>,
      <<"m", "k", "v">>, <<".", "m", "o", "v">>, <<"c">>, <<>> }

ClassifyTypes ==
    { <<>>,
      <<"v", "i", "d", "e", "o", "/", "m", "p", "4">>,
      <<"v", "i", "d", "e", "o", "/">>,
      <<"a", "u", "d", "i", "o", "/", "m", "p", "e", "g">>,
      <<"a", "u", "d", "i", "o", "/">>,
      <<"a", "u", "d", "i", "o">>,
      <<"v", "i", "d", "e", "o">>,
      <<"x", "/", "v", "i", "d", "e", "o", "/">>,
      <<"a", "p", "p", "/", "o", "g", "g">> }

ClassifyFiles == [name : ClassifyNames, type : ClassifyTypes, size : {1}]

\* getFileType(file), as handleFileUpload calls it at line 44
Classify(file) ==
    /\ lastOp' = [op |-> "getFileType", arg |-> <<file, getFileType(file)>>]
    /\ UNCHANGED <<musicFiles, playbackVars, storage, pendingLoad, phase, cacheVars,
                   now, nextBlob, liveFrom, persisted, original>>

NextClassify == \E file \in ClassifyFiles : Classify(file)

SpecClassify == InitNoCache /\ [][NextClassify]_vars

----------------------------------------------------------------------------
(* Properties *)

\* the element that matches the kind of the current track
matchingElement == IF currentTrack.mediaType = "video" THEN video ELSE audio
otherElement == IF currentTrack.mediaType = "video" THEN audio ELSE video

idle(el) == el.paused /\ el.src = NoSrc

\* the 1-based positions at which track sits in the catalog
positionsOf(track) == {i \in 1..Len(musicFiles) : musicFiles[i] = track}

\* C1: a delete(id) whose id is the id of the current track ends with no
\* current track, not playing, and with the audio and the video element both
\* paused and without a source.
C1_DeleteCurrentEndsIdle ==
    [][ (/\ lastOp'.op = "delete"
         /\ currentTrack # null
         /\ currentTrack.id = lastOp'.arg[1])
        => /\ currentTrack' = null
           /\ isPlaying' = FALSE
           /\ audio'.paused /\ audio'.src = NoSrc
           /\ video'.paused /\ video'.src = NoSrc ]_vars

\* the current video track has been deleted and both elements are stopped
C1_Witness ==
    /\ lastOp.op = "delete"
    /\ lastOp.arg[2] = "video"
    /\ currentTrack = null
    /\ idle(audio) /\ idle(video)
    /\ musicFiles # <<>>

\* C2: with the current track at index i of a catalog of length N, next()
\* makes the entry at (i+1) mod N current and previous() the entry at
\* (i-1+N) mod N; without a current track, or with N = 0, neither changes
\* the catalog, the playback state or an element.
C2_CircularNavigation ==
    [][ LET N == Len(musicFiles)
            noop == UNCHANGED <<musicFiles, playbackVars>>
        IN  /\ lastOp'.op = "next" =>
                 IF currentTrack = null \/ N = 0 THEN noop
                 ELSE \A p \in positionsOf(currentTrack) :
                         currentTrack' = musicFiles[(((p - 1) + 1) % N) + 1]
            /\ lastOp'.op = "previous" =>
                 IF currentTrack = null \/ N = 0 THEN noop
                 ELSE \A p \in positionsOf(currentTrack) :
                         currentTrack' = musicFiles[(((p - 1) - 1 + N) % N) + 1] ]_vars

\* C3: the element that does not match the kind of the current track is
\* idle (paused, no source), and both elements are idle when there is no
\* current track.
C3_OnlyMatchingEngineActive ==
    IF currentTrack = null
    THEN idle(audio) /\ idle(video)
    ELSE idle(otherElement)

\* C4: play(track) makes track current and playing, gives the matching element
\* the url of the track and starts it, and leaves the other element and the
\* catalog as they were.
C4_PlayFrame ==
    [][ lastOp'.op = "play" =>
          LET track == musicFiles[lastOp'.arg]
          IN  /\ currentTrack' = track
              /\ isPlaying' = TRUE
              /\ musicFiles' = musicFiles
              /\ IF track.mediaType = "video"
                 THEN /\ video'.src = track.url /\ ~video'.paused
                      /\ audio' = audio
                 ELSE /\ audio'.src = track.url /\ ~audio'.paused
                      /\ video' = video ]_vars

\* a video track has been started while the audio element was playing: the
\* audio element still plays its source
C4_Witness ==
    /\ lastOp.op = "play"
    /\ currentTrack # null
    /\ currentTrack.mediaType = "video"
    /\ video.src = currentTrack.url /\ ~video.paused
    /\ audio.src # NoSrc /\ ~audio.paused

\* what C5 compares of an entry
Project(files) ==
    [i \in 1..Len(files) |->
        [id |-> files[i].id, name |-> files[i].name, size |-> files[i].size,
         mediaType |-> files[i].mediaType]]

\* C5: the catalog that a reload finds persisted comes back with the same
\* entries in the same order, equal in id, name, size and media kind: in the
\* catalog rendered after the load, and in the catalog and the stored item once
\* the save effect of that render has run; and writing any reachable catalog
\* and reading it back preserves these.
C5_RoundTrip ==
    /\ Project(JSONparse(JSONstringify(musicFiles))) = Project(musicFiles)
    /\ lastOp.op = "renderLoaded" => Project(musicFiles) = Project(original)
    /\ (lastOp.op = "saveEffect" /\ lastOp.arg = "renderLoaded") =>
          /\ Project(musicFiles) = Project(original)
          /\ storage.has
          /\ Project(JSONparse(storage.val)) = Project(original)

\* a catalog of two uploaded entries has come back from storage; the loaded
\* entries are not the uploaded ones (their File object is gone)
C5_Witness ==
    /\ lastOp.op = "saveEffect" /\ lastOp.arg = "renderLoaded"
    /\ Len(original) = 2
    /\ original[1].mediaType # original[2].mediaType
    /\ musicFiles # original

\* C6: add appends one entry per uploaded file, in upload order, after the
\* entries that were there, which keep their places; also when two adds run
\* before the next render.
C6_UploadAppends ==
    [][ lastOp'.op = "upload" =>
          LET n == lastOp'.arg[1] + lastOp'.arg[2]
              old == Len(musicFiles)
          IN  /\ Len(musicFiles') = old + n
              /\ SubSeq(musicFiles', 1, old) = musicFiles
              /\ \A k \in 1..n : musicFiles'[old + k].url[1] = nextBlob + k - 1 ]_vars

\* two adds of one file each have run before one render
C6_Witness ==
    /\ lastOp.op = "upload"
    /\ lastOp.arg = <<1, 1>>
    /\ Len(musicFiles) = 2

\* C7: the ids of the entries of the catalog are pairwise distinct.
C7_UniqueIds ==
    \A i, j \in 1..Len(musicFiles) : i # j => musicFiles[i].id # musicFiles[j].id

\* C8: next(), previous() and onEnded() with a current track end playing, with
\* a current track whose matching element has the url of that track and is
\* started, also when the player was paused.
C8_NavigationResumes ==
    (\/ lastOp.op \in {"next", "previous"} /\ lastOp.arg[1]
     \/ lastOp.op = "ended" /\ lastOp.arg[2])
    => /\ isPlaying
       /\ currentTrack # null /\ currentTrack # undefined
       /\ matchingElement.src = currentTrack.url
       /\ ~matchingElement.paused

\* next() has run while the player was paused
C8_Witness ==
    /\ lastOp.op = "next"
    /\ lastOp.arg = <<TRUE, FALSE>>
    /\ isPlaying
    /\ Len(musicFiles) = 2

beginsWith(s, prefix) ==
    /\ Len(s) >= Len(prefix)
    /\ \A i \in 1..Len(prefix) : s[i] = prefix[i]

sameLetter(c, d) ==
    \/ c = d
    \/ \E i \in 1..26 : {c, d} = {UpperCase[i], LowerCase[i]}

endsInIgnoringCase(name, ext) ==
    /\ Len(name) >= Len(ext)
    /\ \A i \in 1..Len(ext) : sameLetter(name[Len(name) - Len(ext) + i], ext[i])

ClaimedExtensions ==
    { <<".", "m", "p", "4">>, <<".", "a", "v", "i">>, <<".", "m", "o", "v">>,
      <<".", "m", "k", "v">>, <<".", "w", "e", "b", "m">> }

\* C9: classify returns video for a MIME type that begins with video/, audio
\* for one that begins with audio/ whatever the name, and otherwise video
\* exactly when the name ends, in any case of letters, in .mp4, .avi, .mov,
\* .mkv or .webm, and audio when it does not.
C9_Classification ==
    lastOp.op = "getFileType" =>
       LET file == lastOp.arg[1]
           kind == lastOp.arg[2]
       IN  IF beginsWith(file.type, <<"v", "i", "d", "e", "o", "/">>)
           THEN kind = "video"
           ELSE IF beginsWith(file.type, <<"a", "u", "d", "i", "o", "/">>)
           THEN kind = "audio"
           ELSE IF \E ext \in ClaimedExtensions : endsInIgnoringCase(file.name, ext)
           THEN kind = "video"
           ELSE kind = "audio"

\* a file without MIME type and with an upper-case video extension
C9_Witness ==
    /\ lastOp.op = "getFileType"
    /\ lastOp.arg[1].type = <<>>
    /\ lastOp.arg[1].name = <<"c", ".", "M", "K", "V">>
    /\ lastOp.arg[2] = "video"

\* C10: a seek at the fraction f = (clientX - left) / width of the progress
\* bar, with a current track and a duration D >= 0, sets the position of the
\* matching element and currentTime to the same value f * D, which lies in
\* [0, D].
C10_SeekTarget ==
    (lastOp.op = "seek" /\ currentTrack # null /\ duration # NaN) =>
       /\ matchingElement.currentTime * Width = (lastOp.arg - RectLeft) * duration
       /\ currentTime = matchingElement.currentTime
       /\ 0 <= currentTime /\ currentTime <= duration

\* a seek to the middle of a video of known duration
C10_Witness ==
    /\ lastOp.op = "seek"
    /\ lastOp.arg = RectLeft + 1
    /\ currentTrack # null
    /\ currentTrack.mediaType = "video"
    /\ duration = 2 * Width
    /\ currentTime = Width
    /\ video.currentTime = Width

\* the entries of files whose id differs from id, in their order
without(files, id) ==
    LET differs(t) == t.id # id
    IN  SelectSeq(files, differs)

hasId(files, id) == \E k \in 1..Len(files) : files[k].id = id

C12_StorageMirrors ==
    /\ lastOp.op = "saveEffect" => storage = Item(JSONstringify(musicFiles))
    /\ (lastOp.op = "mountEffects" /\ original # <<>>) =>
          /\ storage.has
          /\ storage.val # <<>>

\* C13: a timeupdate of either element, handled while there is a current
\* track, publishes as currentTime and duration the position and the duration
\* of the element that matches the kind of the track that is current then.
C13_TimeUpdateReadsCurrent ==
    [][ (lastOp'.op = "timeupdate" /\ currentTrack # null)
        => LET m == IF currentTrack.mediaType = "video" THEN video' ELSE audio'
           IN  /\ currentTrack' = currentTrack
               /\ currentTime' = m.currentTime
               /\ duration' = m.duration ]_vars

\* the <audio> element, still at the end of the track played before, has
\* emitted timeupdate after the switch to a video track: the published
\* position is the one of the <video> element
C13_Witness ==
    /\ lastOp.op = "timeupdate"
    /\ lastOp.arg = "audio"
    /\ currentTrack # null
    /\ currentTrack.mediaType = "video"
    /\ currentTime = video.currentTime
    /\ duration = video.duration
    /\ audio.currentTime # video.currentTime

\* C14: pause() ends not playing with the element that matches the kind of
\* the current track paused, and with the current track, the catalog and the
\* other element as they were; without a current track it ends with no
\* current track and not playing, the <audio> element paused and the <video>
\* element untouched.
C14_PauseFrame ==
    [][ lastOp'.op = "pause" =>
          /\ isPlaying' = FALSE
          /\ currentTrack' = currentTrack
          /\ musicFiles' = musicFiles
          /\ IF currentTrack # null /\ currentTrack.mediaType = "video"
             THEN /\ video' = [video EXCEPT !.paused = TRUE]
                  /\ audio' = audio
             ELSE /\ audio' = [audio EXCEPT !.paused = TRUE]
                  /\ video' = video ]_vars

\* a video track has been paused while the <audio> element goes on playing
C14_Witness ==
    /\ lastOp.op = "pause"
    /\ currentTrack # null
    /\ currentTrack.mediaType = "video"
    /\ ~isPlaying
    /\ video.paused /\ video.src = currentTrack.url
    /\ ~audio.paused /\ audio.src # NoSrc

\* the kind of element e
kindOf(e) == IF e = "video" THEN "video" ELSE "audio"

\* C17: an ended of the element that does not match the kind of the current
\* track leaves the current track and the element that matches it as they
\* were.
C17_EndedOfOtherIgnored ==
    [][ (/\ lastOp'.op = "ended"
         /\ currentTrack # null
         /\ currentTrack.mediaType # kindOf(lastOp'.arg[1]))
        => /\ currentTrack' = currentTrack
           /\ IF currentTrack.mediaType = "video"
              THEN video' = video
              ELSE audio' = audio ]_vars

\* C18: when there is a current track, an entry with its id is in the
\* catalog, the id lookup of next() and previous() finds an index in
\* 0..N-1, and the current track is never the undefined that an index
\* outside the catalog gives.
C18_CurrentInCatalog ==
    /\ currentTrack # undefined
    /\ currentTrack # null =>
          /\ hasId(musicFiles, currentTrack.id)
          /\ findIndex(musicFiles, currentTrack.id) \in 0..(Len(musicFiles) - 1)

\* an entry has been deleted and the current track, another one, is still in
\* the catalog
C18_Witness ==
    /\ lastOp.op = "delete"
    /\ Len(persisted) = 2
    /\ Len(musicFiles) = 1
    /\ currentTrack # null
    /\ hasId(musicFiles, currentTrack.id)

\* C19: isPlaying implies that there is a current track.
C19_PlayingHasTrack ==
    isPlaying => (currentTrack # null /\ currentTrack # undefined)

\* the current track has been deleted while it played
C19_Witness ==
    /\ lastOp.op = "delete"
    /\ lastOp.arg[2] \in {"audio", "video"}
    /\ Len(persisted) = 2
    /\ Len(musicFiles) = 1
    /\ currentTrack = null
    /\ ~isPlaying

\* C20: a loadedmetadata of the element that does not match the kind of the
\* current track leaves duration as it was, and every step that writes
\* duration writes the duration of the element that matches the kind of the
\* current track.
C20_DurationFromCurrent ==
    [][ /\ (/\ lastOp'.op = "loadedmetadata"
            /\ currentTrack # null
            /\ currentTrack.mediaType # kindOf(lastOp'.arg))
           => duration' = duration
        /\ (/\ lastOp'.op \in {"loadedmetadata", "timeupdate"}
            /\ currentTrack # null
            /\ duration' # duration)
           => duration' = (IF currentTrack.mediaType = "video"
                           THEN video' ELSE audio').duration ]_vars

\* C15: an upload appends its entries whether or not the browser has the
\* Cache API and whatever becomes of the cache tasks; a rejected fetch or put
\* leaves the catalog, the playback state and the stored item as they were,
\* ends the task of that one url only, and the url is not tried again: a url
\* enters the tasks in flight only with the upload that creates it.
C15_CacheIsolated ==
    [][ /\ lastOp'.op = "upload" =>
             /\ Len(musicFiles') = Len(musicFiles) + lastOp'.arg[1] + lastOp'.arg[2]
             /\ cachesInWindow' = cachesInWindow
             /\ ~cachesInWindow => cacheTasks' = cacheTasks /\ cacheStore' = cacheStore
             /\ cachesInWindow =>
                   cacheTasks' = cacheTasks \cup (urlsOf(musicFiles') \ urlsOf(musicFiles))
        /\ lastOp'.op = "cacheFail" =>
             /\ UNCHANGED <<musicFiles, playbackVars, storage, cacheStore>>
             /\ cacheTasks' = cacheTasks \ {lastOp'.arg}
        /\ \A u \in cacheTasks' \ cacheTasks : lastOp'.op = "upload" /\ u[1] >= nextBlob
      ]_vars

\* the caching of one file of a batch of two has failed, the caching of the
\* other one is still in flight, and both entries are in the catalog
C15_Witness ==
    /\ lastOp.op = "cacheFail"
    /\ Len(musicFiles) = 2
    /\ lastOp.arg \in urlsOf(musicFiles)
    /\ lastOp.arg \notin cacheTasks
    /\ lastOp.arg \notin cacheStore
    /\ \E u \in cacheTasks : u \in urlsOf(musicFiles) /\ u # lastOp.arg

\* C16: a cache.put that resolves leaves the catalog and the playback state
\* as they were and adds its key to the cache, also when the entry has been
\* deleted meanwhile; a delete ends no cache task and removes no key from the
\* cache.
C16_DeleteKeepsCache ==
    [][ /\ lastOp'.op = "cachePut" =>
             /\ UNCHANGED <<musicFiles, playbackVars>>
             /\ cacheStore' = cacheStore \cup {lastOp'.arg}
        /\ lastOp'.op = "delete" =>
             /\ cacheTasks' = cacheTasks
             /\ cacheStore' = cacheStore ]_vars

\* the cache holds the key of an entry that was deleted while its cache.put
\* was in flight
C16_Witness ==
    /\ lastOp.op = "cachePut"
    /\ lastOp.arg \in cacheStore
    /\ lastOp.arg[1] >= liveFrom
    /\ lastOp.arg \notin urlsOf(musicFiles)
    /\ musicFiles # <<>>

====
